---- MODULE Spec2Model ----
(***************************************************************************)
(* scripts/parse_regions.py: tile an atlas into cards, crop the regions of *)
(* every card, optionally OCR them / match symbol templates, and write one *)
(* summary JSON.  The program is a single synchronous run; the model       *)
(* follows its control flow statement group by statement group.            *)
(***************************************************************************)
EXTENDS Integers, Sequences, FiniteSets, TLC

(***************************************************************************)
(* Bounds of the explored inputs.                                          *)
(***************************************************************************)
MaxAtlas == 5        \* atlas width and height range over 2..MaxAtlas
MaxRegions == 2      \* a regions file defines at most MaxRegions regions
MaxTextLen == 4      \* OCR strings of up to MaxTextLen characters (SpecMerge)
MaxTemplates == 2    \* symbol templates per run (SpecMatch)
MaxScore == 2        \* match scores are the levels -1..MaxScore

(***************************************************************************)
(* Python values.  Optional[T] is None or Some(v); a JSON value is tagged  *)
(* with its type so that int() can be modelled by what it does.            *)
(***************************************************************************)
None == <<>>
Some(v) == <<v>>

JInt(n) == [t |-> "int", v |-> n]        \* the JSON integer n
JFloat(h) == [t |-> "float", v |-> h]    \* the JSON number h/2 (h odd: n.5)
JStr(n) == [t |-> "str", v |-> n]        \* the JSON string of n's digits
JText == [t |-> "text", v |-> 0]         \* a JSON string that is no number
JNull == [t |-> "null", v |-> 0]         \* JSON null
Missing == [t |-> "missing", v |-> 0]    \* the key is absent

\* int(v) raises TypeError/ValueError for None and for non-numeric strings
IntRaises(j) == j.t \in {"text", "null", "missing"}

\* int(v): identity on ints, truncation toward zero on floats, parse on strings
PyInt(j) ==
    CASE j.t = "int" -> j.v
      [] j.t = "str" -> j.v
      [] j.t = "float" -> IF j.v >= 0 THEN j.v \div 2 ELSE -((-j.v) \div 2)
      [] OTHER -> 0

\* Python's a // b (floor division) for a >= 0 and b # 0
FloorDiv(a, b) == IF b > 0 THEN a \div b ELSE -((a + (-b) - 1) \div (-b))

\* Python truthiness of an Optional[int] argument: None and 0 are falsy
Truthy(o) == o # None /\ o[1] # 0

Max(a, b) == IF a >= b THEN a ELSE b

(***************************************************************************)
(* Text.  A string is a sequence of characters; the OCR alphabet has one   *)
(* character per class the code distinguishes:                             *)
(*   "A" alphanumeric, "P" punctuation, "S" the space, "N" a newline       *)
(*   (whitespace and control), "C" \x01 (control, not whitespace).         *)
(* A symbol label (glyph, token or name) is one opaque character.          *)
(***************************************************************************)
OcrChars == {"A", "P", "S", "N", "C"}
Whitespace == {"S", "N"}
Control == {"N", "C"}       \* [\x00-\x1F\x7F]
Alnum == {"A"}              \* [A-Za-z0-9]

RECURSIVE LStrip(_)
LStrip(s) == IF s # <<>> /\ Head(s) \in Whitespace THEN LStrip(Tail(s)) ELSE s

RECURSIVE RStrip(_)
RStrip(s) ==
    IF s # <<>> /\ s[Len(s)] \in Whitespace
    THEN RStrip(SubSeq(s, 1, Len(s) - 1)) ELSE s

\* str.strip()
Strip(s) == RStrip(LStrip(s))

RECURSIVE Filter(_, _)
Filter(s, keep) ==
    IF s = <<>> THEN <<>>
    ELSE IF Head(s) \in keep THEN <<Head(s)>> \o Filter(Tail(s), keep)
    ELSE Filter(Tail(s), keep)

RECURSIVE Remove(_, _)
Remove(s, drop) ==
    IF s = <<>> THEN <<>>
    ELSE IF Head(s) \in drop THEN Remove(Tail(s), drop)
    ELSE <<Head(s)>> \o Remove(Tail(s), drop)

\* " ".join(xs) for a list of one-character labels
RECURSIVE Join(_)
Join(xs) ==
    IF xs = <<>> THEN <<>>
    ELSE IF Len(xs) = 1 THEN <<xs[1]>>
    ELSE <<xs[1], "S">> \o Join(Tail(xs))

\* name.replace(' ', '_')
RECURSIVE ReplaceSpaces(_)
ReplaceSpaces(s) ==
    IF s = <<>> THEN <<>>
    ELSE <<IF Head(s) = "S" THEN "_" ELSE Head(s)>> \o ReplaceSpaces(Tail(s))

Range(s) == {s[k] : k \in 1..Len(s)}

SeqsUpTo(S, n) == UNION {[1..k -> S] : k \in 0..n}

(***************************************************************************)
(* State.                                                                  *)
(***************************************************************************)
VARIABLES
    pc,               \* the statement group the run is at
    error,            \* "" or the exception that ended the run
    \* ---- the run's inputs: command line, files, installed libraries
    args,             \* argparse result: ocr, save_crops, card_width, ...
    regionsFile,      \* the regions JSON file: exists, parsed content
    atlas,            \* the atlas image file: exists, readable, size
    symbolsMap,       \* the symbols map file and the template files it names
    HAS_PYTESSERACT,  \* import pytesseract succeeded
    HAS_CV2,          \* import cv2, numpy succeeded
    \* ---- main() and process_atlas() locals
    regions, image_size,
    atlas_w, atlas_h, card_w, card_h, cols, rows,
    do_ocr, templates, summary,
    card_index, card_entry, i, crop,
    text, matches, tpl_idx, scale_idx, best_color, best_edge,
    merged_text,
    \* ---- the output directory: the files written, in order
    files

inputs == <<args, regionsFile, atlas, symbolsMap, HAS_PYTESSERACT, HAS_CV2>>
loaded == <<regions, image_size>>
geometry == <<atlas_w, atlas_h, card_w, card_h, cols, rows>>
cardLoop == <<card_index, card_entry>>
regionLoop == <<i, crop>>
matchLoop == <<tpl_idx, scale_idx, best_color, best_edge>>
vars == <<pc, error, inputs, loaded, geometry, do_ocr, templates, summary,
          cardLoop, regionLoop, text, matches, matchLoop, merged_text, files>>

(***************************************************************************)
(* load_regions                                                            *)
(***************************************************************************)
\* A parsed regions document.  kind: "invalid" (json.loads raises), "scalar",
\* "list" (old format, items are the regions) or "dict".  For a dict,
\* regions/image_size are [tag, items] with tag "nokey", "notlist" or "list".
NoKey == [tag |-> "nokey", items |-> <<>>]
NotList == [tag |-> "notlist", items |-> <<>>]
JList(xs) == [tag |-> "list", items |-> xs]
Doc(kind, items, rs, isz) ==
    [kind |-> kind, items |-> items, regions |-> rs, image_size |-> isz]

\* lines 70-75: the image_size load_regions returns for a new-format dict
ParseImageSize(isz) ==
    IF isz.tag = "list" /\ Len(isz.items) >= 2
    THEN IF IntRaises(isz.items[1]) \/ IntRaises(isz.items[2])
         THEN None
         ELSE Some(<<PyInt(isz.items[1]), PyInt(isz.items[2])>>)
    ELSE None

\* load_regions(path): [raises, regions, image_size]
load_regions(obj) ==
    IF obj.kind = "invalid"
    THEN [raises |-> "RuntimeError: Failed to parse JSON",
          regions |-> <<>>, image_size |-> None]
    ELSE IF obj.kind = "dict" /\ obj.regions.tag = "list"
    THEN [raises |-> "", regions |-> obj.regions.items,
          image_size |-> ParseImageSize(obj.image_size)]
    ELSE IF obj.kind = "list"
    THEN [raises |-> "", regions |-> obj.items, image_size |-> None]
    ELSE [raises |-> "RuntimeError: Unrecognized regions JSON format",
          regions |-> <<>>, image_size |-> None]

(***************************************************************************)
(* process_atlas: card size and grid                                       *)
(***************************************************************************)
\* a selection that lets the command line override the regions file
CardSizeArgsFirst(isz, card_w_arg, card_h_arg) ==
    IF Truthy(card_w_arg) /\ Truthy(card_h_arg)
    THEN [raises |-> "", w |-> card_w_arg[1], h |-> card_h_arg[1]]
    ELSE IF isz # None
    THEN [raises |-> "", w |-> isz[1][1], h |-> isz[1][2]]
    ELSE [raises |-> "RuntimeError: Card size not found", w |-> 0, h |-> 0]

\* lines 91-96: [raises, w, h]
CardSize(isz, card_w_arg, card_h_arg) ==
    IF isz # None
    THEN [raises |-> "", w |-> isz[1][1], h |-> isz[1][2]]
    ELSE IF Truthy(card_w_arg) /\ Truthy(card_h_arg)
    THEN [raises |-> "", w |-> card_w_arg[1], h |-> card_h_arg[1]]
    ELSE [raises |-> "RuntimeError: Card size not found", w |-> 0, h |-> 0]

\* a grid computation without the check of line 100
GridUnchecked(aw, ah, cw, ch) ==
    IF cw = 0 \/ ch = 0
    THEN [raises |-> "ZeroDivisionError", cols |-> 0, rows |-> 0]
    ELSE [raises |-> "", cols |-> Max(FloorDiv(aw, cw), 0),
          rows |-> Max(FloorDiv(ah, ch), 0)]

\* lines 98-101: [raises, cols, rows]
Grid(aw, ah, cw, ch) ==
    IF cw = 0 \/ ch = 0
    THEN [raises |-> "ZeroDivisionError", cols |-> 0, rows |-> 0]
    ELSE IF FloorDiv(aw, cw) <= 0 \/ FloorDiv(ah, ch) <= 0
    THEN [raises |-> "RuntimeError: Card size is larger than atlas",
          cols |-> FloorDiv(aw, cw), rows |-> FloorDiv(ah, ch)]
    ELSE [raises |-> "", cols |-> FloorDiv(aw, cw), rows |-> FloorDiv(ah, ch)]

(***************************************************************************)
(* process_atlas: symbol matches and the merged text of one region         *)
(***************************************************************************)
NumScales == 5       \* the scales (0.8, 0.9, 1.0, 1.1, 1.2) tried per template

\* A label that is absent (None) is "".
Match(tpl_info, score, edge_score) ==
    [name |-> tpl_info.name, glyph |-> tpl_info.glyph, token |-> tpl_info.token,
     score |-> score, edge_score |-> edge_score]

\* an acceptance test that looks at the colour score only
AcceptedByColour(color, edge, symbol_threshold, symbol_edge_threshold) ==
    color >= symbol_threshold

\* line 209: both the colour and the edge match must be strong enough
Accepted(color, edge, symbol_threshold, symbol_edge_threshold) ==
    color >= symbol_threshold /\ edge >= symbol_edge_threshold

\* line 219: m.get("name") or m.get("token") or m.get("glyph") or m.get("name")
SymbolKey(m) ==
    IF m.name # "" THEN m.name
    ELSE IF m.token # "" THEN m.token
    ELSE IF m.glyph # "" THEN m.glyph
    ELSE m.name

\* line 227: m.get("glyph") or m.get("token") or m.get("name")
GlyphOf(m) ==
    IF m.glyph # "" THEN m.glyph
    ELSE IF m.token # "" THEN m.token
    ELSE m.name

IndexOfKey(uniq, n) ==
    IF \E k \in 1..Len(uniq) : SymbolKey(uniq[k]) = n
    THEN CHOOSE k \in 1..Len(uniq) : SymbolKey(uniq[k]) = n
    ELSE 0

\* line 220: a later match replaces the kept one only with a strictly higher score
Replaces(m, kept) == m.score > kept.score

\* lines 217-221: uniq as the list of its values in insertion order
RECURSIVE Dedupe(_, _)
Dedupe(ms, uniq) ==
    IF ms = <<>> THEN uniq
    ELSE LET m == Head(ms)
             k == IndexOfKey(uniq, SymbolKey(m))
         IN  IF k = 0 THEN Dedupe(Tail(ms), Append(uniq, m))
             ELSE IF Replaces(m, uniq[k])
             THEN Dedupe(Tail(ms), [uniq EXCEPT ![k] = m])
             ELSE Dedupe(Tail(ms), uniq)

\* position of m in a list sorted by descending score, after its equals
RECURSIVE InsertDesc(_, _)
InsertDesc(sorted, m) ==
    IF sorted = <<>> THEN <<m>>
    ELSE IF Head(sorted).score >= m.score
    THEN <<Head(sorted)>> \o InsertDesc(Tail(sorted), m)
    ELSE <<m>> \o sorted

\* line 222: sorted(..., key=score, reverse=True), which is stable
RECURSIVE SortDesc(_, _)
SortDesc(ms, acc) ==
    IF ms = <<>> THEN acc ELSE SortDesc(Tail(ms), InsertDesc(acc, Head(ms)))

\* lines 216-222
DedupeAndSort(ms) == SortDesc(Dedupe(ms, <<>>), <<>>)

\* lines 227-230: the labels of the matches, None dropped, first occurrence kept
RECURSIVE Glyphs(_, _)
Glyphs(ms, seen) ==
    IF ms = <<>> THEN <<>>
    ELSE LET g == GlyphOf(Head(ms))
         IN  IF g # "" /\ g \notin seen
             THEN <<g>> \o Glyphs(Tail(ms), seen \cup {g})
             ELSE Glyphs(Tail(ms), seen)

\* line 225: (text or "").strip() if text is not None else ""
StrippedOcr(txt) == IF txt = None THEN <<>> ELSE Strip(txt[1])

\* line 235: re.sub(r"[\x00-\x1F\x7F]+", "", merged_text)
Cleaned(s) == Remove(s, Control)

\* line 237
AlnumCount(s) == Len(Filter(s, Alnum))

\* a garbage test whose length limit is one character shorter
PreferGlyphsShorter(cleaned_text) ==
    \/ Len(Filter(cleaned_text, Alnum)) < 2 /\ Strip(cleaned_text) = <<>>
    \/ Len(Filter(cleaned_text, Alnum)) < 2 /\ Len(cleaned_text) < 3

\* lines 238-242: the OCR text is dropped in favour of the glyphs
PreferGlyphs(cleaned_text) ==
    \/ AlnumCount(cleaned_text) < 2 /\ Strip(cleaned_text) = <<>>
    \/ AlnumCount(cleaned_text) < 2 /\ Len(cleaned_text) <= 3

\* lines 225-244
MergedText(txt, ms) ==
    IF ms = <<>> THEN StrippedOcr(txt)
    ELSE LET glyphs_str == Join(Glyphs(ms, {}))
             cleaned_text == Cleaned(StrippedOcr(txt))
         IN  IF PreferGlyphs(cleaned_text) THEN glyphs_str
             ELSE IF glyphs_str # <<>>
             THEN Strip(cleaned_text \o <<"S">> \o glyphs_str)
             ELSE cleaned_text

(***************************************************************************)
(* process_atlas: one region of one card                                   *)
(***************************************************************************)
\* line 152: r.get("name") or f"region{i}"
RegionName(r, idx) == IF r.name # <<>> THEN r.name ELSE <<"region", ToString(idx)>>

\* lines 153-156: the first coordinate whose int(r[...]) raises, or ""
CoordRaises(r) ==
    LET bad(j) == IF j.t = "missing" THEN "KeyError"
                  ELSE IF j.t = "null" THEN "TypeError" ELSE "ValueError"
    IN  IF IntRaises(r.x) THEN bad(r.x)
        ELSE IF IntRaises(r.y) THEN bad(r.y)
        ELSE IF IntRaises(r.width) THEN bad(r.width)
        ELSE IF IntRaises(r.height) THEN bad(r.height)
        ELSE ""

\* a crop rectangle whose horizontal offset is taken from the row
CropOfRowOffset(r, idx, cidx, ncols, cw, ch) ==
    LET col == cidx % ncols
        row == cidx \div ncols
        offset_x == row * cw
        offset_y == row * ch
    IN  [name |-> RegionName(r, idx),
         x |-> PyInt(r.x), y |-> PyInt(r.y),
         w |-> PyInt(r.width), h |-> PyInt(r.height),
         x_abs |-> offset_x + PyInt(r.x), y_abs |-> offset_y + PyInt(r.y)]

\* lines 145-148 and 152-158: the crop rectangle of region r (index idx) of a card
CropOf(r, idx, cidx, ncols, cw, ch) ==
    LET col == cidx % ncols
        row == cidx \div ncols
        offset_x == col * cw
        offset_y == row * ch
    IN  [name |-> RegionName(r, idx),
         x |-> PyInt(r.x), y |-> PyInt(r.y),
         w |-> PyInt(r.width), h |-> PyInt(r.height),
         x_abs |-> offset_x + PyInt(r.x), y_abs |-> offset_y + PyInt(r.y)]

\* lines 247-257
RegionEntry(idx, c, mtext) ==
    [region_index |-> idx, name |-> c.name, x |-> c.x, y |-> c.y,
     w |-> c.w, h |-> c.h, x_abs |-> c.x_abs, y_abs |-> c.y_abs,
     text |-> mtext]

\* a card entry that enumerates the grid column by column
CardEntryColumnMajor(cidx, ncols) ==
    [card_index |-> cidx, col |-> cidx \div ncols, row |-> cidx % ncols,
     regions |-> <<>>]

\* line 149
CardEntry(cidx, ncols) ==
    [card_index |-> cidx, col |-> cidx % ncols, row |-> cidx \div ncols,
     regions |-> <<>>]

\* lines 262-263, 270: an output file of one region
RegionFile(kind, c, cidx, idx, content) ==
    [kind |-> kind, name |-> ReplaceSpaces(c.name), card |-> cidx, reg |-> idx,
     content |-> content]

\* line 275
SummaryFile ==
    [kind |-> "summary", name |-> <<"cards_summary">>, card |-> -1, reg |-> -1,
     content |-> <<>>]

(***************************************************************************)
(* The explored inputs.                                                    *)
(***************************************************************************)
Region(name, x, y, width, height) ==
    [name |-> name, x |-> x, y |-> y, width |-> width, height |-> height]

\* {"name": "a a", "x": 0, "y": 0, "width": 1, "height": 1}
rFit == Region(<<"A", "S", "A">>, JInt(0), JInt(0), JInt(1), JInt(1))
\* unnamed, {"x": 1.5, "y": "1", "width": 1, "height": 1.5}
rFloat == Region(<<>>, JFloat(3), JStr(1), JInt(1), JFloat(3))
\* reaches past a 2-wide card: x + width = 3
rWide == Region(<<"A">>, JInt(1), JInt(0), JInt(2), JInt(1))
\* starts left of / above the card
rNeg == Region(<<"P">>, JInt(-1), JFloat(-1), JInt(1), JInt(1))
\* no "width" key
rNoWidth == Region(<<"A">>, JInt(0), JInt(0), Missing, JInt(1))
\* "y": null
rNullY == Region(<<>>, JInt(0), JNull, JInt(1), JInt(1))

RegionSamples == {rFit, rFloat, rWide, rNeg, rNoWidth, rNullY}
RegionLists == SeqsUpTo(RegionSamples, MaxRegions)

\* image_size values of a new-format file
ImageSizeSamples ==
    {NoKey, NotList, JList(<<JInt(2)>>),
     JList(<<JInt(2), JInt(2)>>), JList(<<JInt(3), JInt(2), JInt(9)>>),
     JList(<<JFloat(5), JFloat(4)>>), JList(<<JStr(2), JStr(3)>>),
     JList(<<JNull, JInt(2)>>), JList(<<JInt(2), JText>>),
     JList(<<JInt(0), JInt(2)>>), JList(<<JInt(2), JInt(-2)>>),
     JList(<<JInt(9), JInt(2)>>)}

NewFormat(rs, isz) == Doc("dict", <<>>, JList(rs), isz)
OldFormat(rs) == Doc("list", rs, NoKey, NoKey)
File(obj) == [exists |-> TRUE, obj |-> obj]
NoFile == [exists |-> FALSE, obj |-> Doc("invalid", <<>>, NoKey, NoKey)]

MalformedFiles ==
    {NoFile,
     File(Doc("invalid", <<>>, NoKey, NoKey)),
     File(Doc("scalar", <<>>, NoKey, NoKey)),
     File(Doc("dict", <<>>, NoKey, JList(<<JInt(2), JInt(2)>>))),
     File(Doc("dict", <<>>, NotList, JList(<<JInt(2), JInt(2)>>)))}

Image(w, h) == [exists |-> TRUE, readable |-> TRUE, size |-> <<w, h>>]
AtlasSizes == {Image(w, h) : w \in 2..MaxAtlas, h \in 2..MaxAtlas}
BadAtlases ==
    {[exists |-> FALSE, readable |-> FALSE, size |-> <<0, 0>>],
     [exists |-> TRUE, readable |-> FALSE, size |-> <<0, 0>>]}

\* --card-width / --card-height
CardArgs ==
    {<<None, None>>, <<Some(2), None>>, <<None, Some(2)>>, <<Some(2), Some(2)>>,
     <<Some(3), Some(2)>>, <<Some(0), Some(2)>>, <<Some(2), Some(0)>>,
     <<Some(-2), Some(2)>>, <<Some(9), Some(9)>>}

Args(ocr, save_crops, cw, ch, sdir, smap, thr, ethr) ==
    [ocr |-> ocr, save_crops |-> save_crops, card_width |-> cw,
     card_height |-> ch, symbols_dir |-> sdir, symbols_map |-> smap,
     symbol_threshold |-> thr, symbol_edge_threshold |-> ethr]

\* a symbols map entry: the template file's state and the entry's labels
Sym(file, name, glyph, token) ==
    [file |-> file, name |-> name, glyph |-> glyph, token |-> token]
SymMap(readable, entries) == [readable |-> readable, entries |-> entries]
NoSymMap == SymMap(FALSE, <<>>)

SymMapSamples ==
    {NoSymMap,
     SymMap(TRUE, <<Sym("missing", "n1", "g1", ""), Sym("unreadable", "n2", "g2", "")>>),
     SymMap(TRUE, <<Sym("missing", "n2", "g2", ""), Sym("ok", "n1", "g1", "")>>)}

Input(a, rf, at, sm, pyt, cv) ==
    [args |-> a, regionsFile |-> rf, atlas |-> at, symbolsMap |-> sm,
     HAS_PYTESSERACT |-> pyt, HAS_CV2 |-> cv]

PlainArgs(cw, ch) == Args(FALSE, FALSE, cw, ch, FALSE, FALSE, 2, 1)

\* the regions file, the card-size arguments and the atlas vary
FileInputs ==
    {Input(PlainArgs(ca[1], ca[2]), rf, at, NoSymMap, TRUE, TRUE) :
        ca \in CardArgs,
        rf \in MalformedFiles \cup {File(OldFormat(<<rFit>>))}
                \cup {File(NewFormat(<<rFit>>, isz)) : isz \in ImageSizeSamples},
        at \in AtlasSizes \cup BadAtlases}

\* the region list and the grid vary
RegionInputs ==
    {Input(PlainArgs(None, None), File(NewFormat(rs, JList(<<JInt(cw), JInt(2)>>))),
           at, NoSymMap, TRUE, TRUE) :
        rs \in RegionLists, cw \in {2, 3}, at \in AtlasSizes}

\* the sources of per-region variation an input switches on: OCR, symbol
\* matching, saving crops
Sources(inp) ==
    (IF inp.args.ocr /\ inp.HAS_PYTESSERACT THEN 1 ELSE 0)
    + (IF inp.args.symbols_dir /\ inp.args.symbols_map /\ inp.HAS_CV2
          /\ inp.symbolsMap.readable THEN 1 ELSE 0)
    + (IF inp.args.save_crops THEN 1 ELSE 0)

\* the (card, region) pairs of a run on 2x2 cards
Pairs(inp) ==
    (inp.atlas.size[1] \div 2) * (inp.atlas.size[2] \div 2)
    * Len(inp.regionsFile.obj.regions.items)

\* the switches, the libraries and the symbols map vary; a run with several
\* sources of variation is explored on at most two (card, region) pairs
ContentInputs ==
    {inp \in
        {Input(Args(sw[1], sw[2], None, None, sy[1], sy[2], 2, 1),
               File(NewFormat(rs, JList(<<JInt(2), JInt(2)>>))), at, sm, sw[3], sw[4]) :
            sw \in BOOLEAN \X BOOLEAN \X BOOLEAN \X BOOLEAN,
            sy \in {<<TRUE, TRUE>>, <<TRUE, FALSE>>, <<FALSE, FALSE>>},
            rs \in {<<rFit>>, <<rFloat, rFit>>},
            at \in {Image(2, 2), Image(4, 2)},
            sm \in SymMapSamples} :
        Sources(inp) >= 2 => Pairs(inp) <= 2}

Inputs == FileInputs \cup RegionInputs \cup ContentInputs

\* what pytesseract.image_to_string returns for a crop, None when it raises
OcrResults == {None, Some(<<"A", "A", "N">>), Some(<<"P">>)}

ColorScores == -1..MaxScore
EdgeScores == 0..1
\* one scale of one template: not tried, cv2 raised, or the two scores
ScaleOutcomes ==
    {[kind |-> k, color |-> 0, edge |-> 0] : k \in {"skipped", "raised"}}
    \cup {[kind |-> "measured", color |-> c, edge |-> e] :
            c \in ColorScores, e \in EdgeScores}

(***************************************************************************)
(* Initial state: main() is about to run.                                  *)
(***************************************************************************)
NoSummary ==
    [atlas_size |-> <<0, 0>>, card_size |-> <<0, 0>>, cols |-> 0, rows |-> 0,
     cards |-> <<>>]
NoCrop ==
    [name |-> <<>>, x |-> 0, y |-> 0, w |-> 0, h |-> 0, x_abs |-> 0, y_abs |-> 0]
NoCard == [card_index |-> 0, col |-> 0, row |-> 0, regions |-> <<>>]

Locals ==
    /\ error = ""
    /\ regions = <<>> /\ image_size = None
    /\ atlas_w = 0 /\ atlas_h = 0 /\ card_w = 0 /\ card_h = 0
    /\ cols = 0 /\ rows = 0
    /\ do_ocr = args.ocr
    /\ templates = <<>>
    /\ summary = NoSummary
    /\ card_index = 0 /\ card_entry = NoCard
    /\ i = 0 /\ crop = NoCrop
    /\ text = None /\ matches = <<>>
    /\ tpl_idx = 0 /\ scale_idx = 0 /\ best_color = 0 /\ best_edge = 0
    /\ merged_text = <<>>
    /\ files = <<>>

Given(inp) ==
    /\ args = inp.args
    /\ regionsFile = inp.regionsFile
    /\ atlas = inp.atlas
    /\ symbolsMap = inp.symbolsMap
    /\ HAS_PYTESSERACT = inp.HAS_PYTESSERACT
    /\ HAS_CV2 = inp.HAS_CV2

Init ==
    /\ pc = "main"
    /\ \E inp \in Inputs : Given(inp)
    /\ Locals

(***************************************************************************)
(* The run.                                                                *)
(***************************************************************************)
Raise(e) == pc' = "failed" /\ error' = e
Goto(l) == pc' = l /\ error' = error

\* lines 107-130: the templates process_atlas loads
LoadedTemplates(sdir, smap, has_cv2, sm) ==
    IF sdir /\ smap /\ has_cv2 /\ sm.readable
    THEN LET ok == {k \in 1..Len(sm.entries) : sm.entries[k].file = "ok"}
             RECURSIVE take(_)
             take(k) ==
                 IF k > Len(sm.entries) THEN <<>>
                 ELSE IF k \in ok
                 THEN <<[name |-> sm.entries[k].name, glyph |-> sm.entries[k].glyph,
                         token |-> sm.entries[k].token]>> \o take(k + 1)
                 ELSE take(k + 1)
         IN  take(1)
    ELSE <<>>

\* lines 280-302: main() up to the call of load_regions
Main ==
    /\ pc = "main"
    /\ IF ~atlas.exists THEN Raise("SystemExit: Atlas image not found")
       ELSE IF ~regionsFile.exists THEN Raise("SystemExit: Regions JSON not found")
       ELSE Goto("load_regions")
    /\ UNCHANGED <<inputs, loaded, geometry, do_ocr, templates, summary,
                   cardLoop, regionLoop, text, matches, matchLoop, merged_text, files>>

\* line 304 and lines 61-82
LoadRegions ==
    /\ pc = "load_regions"
    /\ LET r == load_regions(regionsFile.obj)
       IN  IF r.raises # ""
           THEN Raise(r.raises) /\ UNCHANGED loaded
           ELSE /\ Goto("open_atlas")
                /\ regions' = r.regions
                /\ image_size' = r.image_size
    /\ UNCHANGED <<inputs, geometry, do_ocr, templates, summary,
                   cardLoop, regionLoop, text, matches, matchLoop, merged_text, files>>

\* lines 86-88
OpenAtlas ==
    /\ pc = "open_atlas"
    /\ IF ~atlas.readable
       THEN Raise("UnidentifiedImageError") /\ UNCHANGED <<atlas_w, atlas_h>>
       ELSE /\ Goto("card_size")
            /\ atlas_w' = atlas.size[1]
            /\ atlas_h' = atlas.size[2]
    /\ UNCHANGED <<inputs, loaded, card_w, card_h, cols, rows, do_ocr, templates,
                   summary, cardLoop, regionLoop, text, matches, matchLoop,
                   merged_text, files>>

\* lines 90-96
DetermineCardSize ==
    /\ pc = "card_size"
    /\ LET cs == CardSize(image_size, args.card_width, args.card_height)
       IN  IF cs.raises # ""
           THEN Raise(cs.raises) /\ UNCHANGED <<card_w, card_h>>
           ELSE Goto("grid") /\ card_w' = cs.w /\ card_h' = cs.h
    /\ UNCHANGED <<inputs, loaded, atlas_w, atlas_h, cols, rows, do_ocr, templates,
                   summary, cardLoop, regionLoop, text, matches, matchLoop,
                   merged_text, files>>

\* lines 98-101
ComputeGrid ==
    /\ pc = "grid"
    /\ LET g == Grid(atlas_w, atlas_h, card_w, card_h)
       IN  /\ IF g.raises # "" THEN Raise(g.raises) ELSE Goto("ocr_check")
           /\ cols' = g.cols
           /\ rows' = g.rows
    /\ UNCHANGED <<inputs, loaded, atlas_w, atlas_h, card_w, card_h, do_ocr,
                   templates, summary, cardLoop, regionLoop, text, matches,
                   matchLoop, merged_text, files>>

\* an availability test that trusts the request
OcrAsRequested(requested, has_pytesseract) == requested

\* lines 103-105
OcrAvailable(requested, has_pytesseract) ==
    IF requested /\ ~has_pytesseract THEN FALSE ELSE requested

CheckOcr ==
    /\ pc = "ocr_check"
    /\ Goto("load_templates")
    /\ do_ocr' = OcrAvailable(do_ocr, HAS_PYTESSERACT)
    /\ UNCHANGED <<inputs, loaded, geometry, templates, summary, cardLoop,
                   regionLoop, text, matches, matchLoop, merged_text, files>>

\* lines 107-130
LoadTemplates ==
    /\ pc = "load_templates"
    /\ Goto("init_summary")
    /\ templates' = LoadedTemplates(args.symbols_dir, args.symbols_map, HAS_CV2,
                                    symbolsMap)
    /\ UNCHANGED <<inputs, loaded, geometry, do_ocr, summary, cardLoop,
                   regionLoop, text, matches, matchLoop, merged_text, files>>

\* lines 132-142
InitSummary ==
    /\ pc = "init_summary"
    /\ Goto("card")
    /\ summary' = [atlas_size |-> <<atlas_w, atlas_h>>,
                   card_size |-> <<card_w, card_h>>,
                   cols |-> cols, rows |-> rows, cards |-> <<>>]
    /\ card_index' = 0
    /\ UNCHANGED <<inputs, loaded, geometry, do_ocr, templates, card_entry,
                   regionLoop, text, matches, matchLoop, merged_text, files>>

\* line 141
Total == cols * rows

\* lines 144-149: the next card of range(total)
BeginCard ==
    /\ pc = "card"
    /\ card_index < Total
    /\ Goto("region")
    /\ card_entry' = CardEntry(card_index, cols)
    /\ i' = 0
    /\ UNCHANGED <<inputs, loaded, geometry, do_ocr, templates, summary,
                   card_index, crop, text, matches, matchLoop, merged_text, files>>

\* lines 151-161: the next region of the card, cropped
CropRegion ==
    /\ pc = "region"
    /\ i < Len(regions)
    /\ LET r == regions[i + 1]
       IN  IF CoordRaises(r) # ""
           THEN Raise(CoordRaises(r)) /\ UNCHANGED crop
           ELSE /\ Goto("ocr")
                /\ crop' = CropOf(r, i, card_index, cols, card_w, card_h)
    /\ UNCHANGED <<inputs, loaded, geometry, do_ocr, templates, summary,
                   cardLoop, i, text, matches, matchLoop, merged_text, files>>

\* an OCR step whose failure is not caught
RunOcrUncaught ==
    /\ pc = "ocr"
    /\ IF do_ocr
       THEN \E out \in OcrResults :
                /\ text' = out
                /\ IF out = None
                   THEN Raise("TesseractError") ELSE Goto("detect")
       ELSE text' = None /\ Goto("detect")
    /\ UNCHANGED <<inputs, loaded, geometry, do_ocr, templates, summary,
                   cardLoop, regionLoop, matches, matchLoop, merged_text, files>>

\* lines 163-169
RunOcr ==
    /\ pc = "ocr"
    /\ Goto("detect")
    /\ IF do_ocr THEN \E out \in OcrResults : text' = out ELSE text' = None
    /\ UNCHANGED <<inputs, loaded, geometry, do_ocr, templates, summary,
                   cardLoop, regionLoop, matches, matchLoop, merged_text, files>>

\* lines 172-180: start of the template loop, or no symbol detection
BeginDetect ==
    /\ pc = "detect"
    /\ matches' = <<>>
    /\ IF templates # <<>> /\ HAS_CV2
       THEN /\ Goto("scale")
            /\ tpl_idx' = 1 /\ scale_idx' = 1
            /\ best_color' = 0 /\ best_edge' = 0
       ELSE Goto("merge") /\ UNCHANGED matchLoop
    /\ UNCHANGED <<inputs, loaded, geometry, do_ocr, templates, summary,
                   cardLoop, regionLoop, text, merged_text, files>>

\* lines 182-206: one scale of the current template
TryScale ==
    /\ pc = "scale"
    /\ scale_idx <= NumScales
    /\ Goto("scale")
    /\ \E out \in ScaleOutcomes :
        /\ best_color' = IF out.kind = "measured" /\ out.color > best_color
                         THEN out.color ELSE best_color
        /\ best_edge' = IF out.kind = "measured" /\ out.edge > best_edge
                        THEN out.edge ELSE best_edge
    /\ scale_idx' = scale_idx + 1
    /\ UNCHANGED <<inputs, loaded, geometry, do_ocr, templates, summary,
                   cardLoop, regionLoop, text, matches, tpl_idx, merged_text, files>>

\* lines 208-214, then the next template (lines 176-180) or the end of the loop
AcceptTemplate ==
    /\ pc = "scale"
    /\ scale_idx > NumScales
    /\ matches' = IF Accepted(best_color, best_edge, args.symbol_threshold,
                              args.symbol_edge_threshold)
                  THEN Append(matches, Match(templates[tpl_idx], best_color, best_edge))
                  ELSE matches
    /\ IF tpl_idx < Len(templates)
       THEN /\ Goto("scale")
            /\ tpl_idx' = tpl_idx + 1 /\ scale_idx' = 1
            /\ best_color' = 0 /\ best_edge' = 0
       ELSE Goto("dedupe") /\ UNCHANGED matchLoop
    /\ UNCHANGED <<inputs, loaded, geometry, do_ocr, templates, summary,
                   cardLoop, regionLoop, text, merged_text, files>>

\* lines 216-222
DedupeMatches ==
    /\ pc = "dedupe"
    /\ Goto("merge")
    /\ matches' = DedupeAndSort(matches)
    /\ UNCHANGED <<inputs, loaded, geometry, do_ocr, templates, summary,
                   cardLoop, regionLoop, text, matchLoop, merged_text, files>>

\* lines 224-258
MergeAndRecord ==
    /\ pc = "merge"
    /\ Goto("save")
    /\ merged_text' = MergedText(text, matches)
    /\ card_entry' = [card_entry EXCEPT
                        !.regions = Append(@, RegionEntry(i, crop, merged_text'))]
    /\ UNCHANGED <<inputs, loaded, geometry, do_ocr, templates, summary,
                   card_index, regionLoop, text, matches, matchLoop, files>>

\* region files written whether or not save_crops is set
CropFilesAlways(save_crops, saved, c, cidx, idx, mtext) ==
    (IF saved THEN <<RegionFile("png", c, cidx, idx, <<>>)>> ELSE <<>>)
    \o (IF mtext # <<>> THEN <<RegionFile("txt", c, cidx, idx, mtext)>> ELSE <<>>)

\* lines 260-271: the files one region adds; saved: crop.save did not raise
CropFiles(save_crops, saved, c, cidx, idx, mtext) ==
    IF save_crops
    THEN (IF saved THEN <<RegionFile("png", c, cidx, idx, <<>>)>> ELSE <<>>)
         \o (IF mtext # <<>> THEN <<RegionFile("txt", c, cidx, idx, mtext)>> ELSE <<>>)
    ELSE <<>>

SaveCrop ==
    /\ pc = "save"
    /\ Goto("region")
    /\ \E saved \in (IF args.save_crops THEN BOOLEAN ELSE {TRUE}) :
        files' = files \o CropFiles(args.save_crops, saved, crop, card_index, i,
                                    merged_text)
    /\ i' = i + 1
    /\ UNCHANGED <<inputs, loaded, geometry, do_ocr, templates, summary,
                   cardLoop, crop, text, matches, matchLoop, merged_text>>

\* line 273
EndCard ==
    /\ pc = "region"
    /\ i >= Len(regions)
    /\ Goto("card")
    /\ summary' = [summary EXCEPT !.cards = Append(@, card_entry)]
    /\ card_index' = card_index + 1
    /\ UNCHANGED <<inputs, loaded, geometry, do_ocr, templates, card_entry,
                   regionLoop, text, matches, matchLoop, merged_text, files>>

\* lines 275-277
WriteSummary ==
    /\ pc = "card"
    /\ card_index >= Total
    /\ Goto("done")
    /\ files' = Append(files, SummaryFile)
    /\ UNCHANGED <<inputs, loaded, geometry, do_ocr, templates, summary,
                   cardLoop, regionLoop, text, matches, matchLoop, merged_text>>

Next ==
    \/ Main
    \/ LoadRegions
    \/ OpenAtlas
    \/ DetermineCardSize
    \/ ComputeGrid
    \/ CheckOcr
    \/ LoadTemplates
    \/ InitSummary
    \/ BeginCard
    \/ CropRegion
    \/ RunOcr
    \/ BeginDetect
    \/ TryScale
    \/ AcceptTemplate
    \/ DedupeMatches
    \/ MergeAndRecord
    \/ SaveCrop
    \/ EndCard
    \/ WriteSummary

Spec == Init /\ [][Next]_vars

(***************************************************************************)
(* The symbol matching of one region, over more templates and thresholds:  *)
(* the run is at line 172 of the first region of a one-card atlas.         *)
(***************************************************************************)
Meta(name, glyph, token) == [name |-> name, glyph |-> glyph, token |-> token]

AsEntries(tl) == [k \in 1..Len(tl) |-> Sym("ok", tl[k].name, tl[k].glyph, tl[k].token)]

\* the locals of a run on a 2x2 atlas of one 2x2 card with the region rFit,
\* before the region's symbol detection
AtFirstRegion(tl, txt, ocr, thr, ethr) ==
    /\ Given(Input(Args(ocr, FALSE, None, None, TRUE, TRUE, thr, ethr),
                   File(NewFormat(<<rFit>>, JList(<<JInt(2), JInt(2)>>))),
                   Image(2, 2), SymMap(TRUE, AsEntries(tl)), TRUE, TRUE))
    /\ error = ""
    /\ regions = <<rFit>> /\ image_size = Some(<<2, 2>>)
    /\ atlas_w = 2 /\ atlas_h = 2 /\ card_w = 2 /\ card_h = 2
    /\ cols = 1 /\ rows = 1
    /\ do_ocr = ocr
    /\ templates = tl
    /\ summary = [atlas_size |-> <<2, 2>>, card_size |-> <<2, 2>>,
                  cols |-> 1, rows |-> 1, cards |-> <<>>]
    /\ card_index = 0 /\ card_entry = CardEntry(0, 1)
    /\ i = 0 /\ crop = CropOf(rFit, 0, 0, 1, 2, 2)
    /\ text = txt
    /\ merged_text = <<>>
    /\ files = <<>>

\* same name; key by token; key by glyph
MatchMetas ==
    {Meta("n1", "g1", ""), Meta("n1", "g2", "t1"), Meta("", "g1", "t1"),
     Meta("", "g2", "")}

InitMatch ==
    /\ pc = "detect"
    /\ \E tl \in SeqsUpTo(MatchMetas, MaxTemplates) \ {<<>>},
          thr \in {1, MaxScore}, ethr \in EdgeScores :
        AtFirstRegion(tl, None, FALSE, thr, ethr)
    /\ matches = <<>>
    /\ tpl_idx = 0 /\ scale_idx = 0 /\ best_color = 0 /\ best_edge = 0

NextMatch ==
    \/ BeginDetect
    \/ TryScale
    \/ AcceptTemplate
    \/ DedupeMatches

SpecMatch == InitMatch /\ [][NextMatch]_vars

(***************************************************************************)
(* The merge of one region's OCR text and matches, over more texts and     *)
(* match lists: the run is at line 216, the template loop just ended.      *)
(***************************************************************************)
\* glyph; the same glyph under another name; token only; name only; no label
MergeMetas ==
    <<Meta("n1", "g1", "t1"), Meta("n2", "g1", ""), Meta("n3", "", "t3"),
      Meta("n4", "", ""), Meta("", "", "")>>

\* the matches line 210 appended: template k was accepted with score sc[k] > 0
RECURSIVE AcceptedFrom(_, _, _)
AcceptedFrom(tl, sc, k) ==
    IF k > Len(tl) THEN <<>>
    ELSE IF sc[k] > 0 THEN <<Match(tl[k], sc[k], 1)>> \o AcceptedFrom(tl, sc, k + 1)
    ELSE AcceptedFrom(tl, sc, k + 1)

OcrTexts == {None} \cup {Some(t) : t \in SeqsUpTo(OcrChars, MaxTextLen)}

InitMerge ==
    /\ pc = "dedupe"
    /\ \E txt \in OcrTexts : AtFirstRegion(MergeMetas, txt, TRUE, 1, 1)
    /\ \E sc \in [1..Len(MergeMetas) -> 0..2] :
        /\ Cardinality({k \in 1..Len(MergeMetas) : sc[k] > 0}) <= MaxTemplates
        /\ matches = AcceptedFrom(MergeMetas, sc, 1)
        /\ best_color = sc[Len(MergeMetas)]
        /\ best_edge = IF sc[Len(MergeMetas)] > 0 THEN 1 ELSE 0
    /\ tpl_idx = Len(MergeMetas) /\ scale_idx = NumScales + 1

NextMerge ==
    \/ DedupeMatches
    \/ MergeAndRecord

SpecMerge == InitMerge /\ [][NextMerge]_vars

(***************************************************************************)
(* Properties.                                                             *)
(***************************************************************************)
\* the card entries built so far: those appended, and the one in progress
Cards == Append(summary.cards, card_entry)

SummaryWritten == \E k \in 1..Len(files) : files[k].kind = "summary"

\* the exceptions the inputs can cause (everything the run may end with)
InputErrors ==
    {"SystemExit: Atlas image not found", "SystemExit: Regions JSON not found",
     "RuntimeError: Failed to parse JSON",
     "RuntimeError: Unrecognized regions JSON format",
     "UnidentifiedImageError", "RuntimeError: Card size not found",
     "ZeroDivisionError", "RuntimeError: Card size is larger than atlas",
     "KeyError", "TypeError", "ValueError"}

Terminated == pc \in {"done", "failed"}

\* the summary holds every grid cell, each with one entry per defined region
FullSummary ==
    /\ Len(summary.cards) = summary.cols * summary.rows
    /\ \A k \in 1..Len(summary.cards) :
        /\ Len(summary.cards[k].regions) = Len(regions)
        /\ \A j \in 1..Len(regions) :
            LET e == summary.cards[k].regions[j]
            IN  /\ e.region_index = j - 1
                /\ e.name = RegionName(regions[j], j - 1)
                /\ e.x = PyInt(regions[j].x) /\ e.y = PyInt(regions[j].y)
                /\ e.w = PyInt(regions[j].width) /\ e.h = PyInt(regions[j].height)

\* C1: every region entry's absolute coordinates are the cell offset of the
\* enclosing card entry (col * card_w, row * card_h) plus the region's
\* card-local x, y.
C1_AbsoluteCoordinates ==
    \A k \in 1..Len(Cards) : \A j \in 1..Len(Cards[k].regions) :
        LET c == Cards[k]
            e == c.regions[j]
        IN  /\ e.x_abs = c.col * summary.card_size[1] + e.x
            /\ e.y_abs = c.row * summary.card_size[2] + e.y

C1_Witness ==
    \E k \in 1..Len(summary.cards) : \E j \in 1..Len(summary.cards[k].regions) :
        /\ summary.cards[k].col >= 1 /\ summary.cards[k].row >= 1
        /\ summary.cards[k].regions[j].x >= 1
        /\ summary.cards[k].regions[j].y >= 1

\* C2: once the card size is accepted the grid is cols = atlas_w div card_w,
\* rows = atlas_h div card_h, and the cards list enumerates the cells in
\* row-major order: the k-th entry has card_index k, col = k mod cols,
\* row = k div cols, no two entries share a cell, every cell lies inside the
\* atlas, and the written summary has exactly cols * rows entries.
C2_GridRowMajor ==
    pc \in {"card", "region", "ocr", "detect", "scale", "dedupe", "merge", "save", "done"}
    =>  LET aw == atlas.size[1]
            ah == atlas.size[2]
            cw == summary.card_size[1]
            ch == summary.card_size[2]
        IN  /\ summary.atlas_size = <<aw, ah>>
            /\ cw > 0 /\ ch > 0
            /\ summary.cols = aw \div cw /\ summary.rows = ah \div ch
            /\ Len(summary.cards) <= summary.cols * summary.rows
            /\ pc = "done" => Len(summary.cards) = summary.cols * summary.rows
            /\ \A k \in 1..Len(summary.cards) :
                LET c == summary.cards[k]
                IN  /\ c.card_index = k - 1
                    /\ c.col = (k - 1) % summary.cols
                    /\ c.row = (k - 1) \div summary.cols
                    /\ 0 <= c.col /\ (c.col + 1) * cw <= aw
                    /\ 0 <= c.row /\ (c.row + 1) * ch <= ah
            /\ \A k1, k2 \in 1..Len(summary.cards) :
                (summary.cards[k1].col = summary.cards[k2].col
                 /\ summary.cards[k1].row = summary.cards[k2].row) => k1 = k2

C2_Witness ==
    /\ pc = "done" /\ summary.cols = 2 /\ summary.rows = 2
    /\ summary.atlas_size[1] > 2 * summary.card_size[1]

\* C3: every region entry cropped and recorded fits its card: 0 <= x, 0 <= y,
\* x + w <= card_w and y + h <= card_h.
C3_RegionsFitCard ==
    \A k \in 1..Len(Cards) : \A j \in 1..Len(Cards[k].regions) :
        LET e == Cards[k].regions[j]
        IN  /\ 0 <= e.x /\ 0 <= e.y
            /\ e.x + e.w <= summary.card_size[1]
            /\ e.y + e.h <= summary.card_size[2]

OcrMissing == args.ocr /\ ~HAS_PYTESSERACT
Cv2Missing == args.symbols_dir /\ args.symbols_map /\ ~HAS_CV2
Labels == {"g1", "g2", "t1", "t3", "n1", "n2", "n3", "n4"}

\* C5: with OCR requested but pytesseract absent, or symbol detection
\* requested but cv2 absent, the run raises nothing on that account, skips
\* the step for every region (no OCR text, no templates, no glyphs) and a
\* finished run has written the full summary.
C5_MissingLibrariesDegrade ==
    /\ (OcrMissing /\ pc \notin {"main", "load_regions", "open_atlas", "card_size",
                                  "grid", "ocr_check"} /\ error = "") =>
            /\ ~do_ocr /\ text = None
            /\ \A k \in 1..Len(Cards) : \A j \in 1..Len(Cards[k].regions) :
                Range(Cards[k].regions[j].text) \cap OcrChars = {}
    /\ Cv2Missing =>
            /\ templates = <<>> /\ matches = <<>>
            /\ \A k \in 1..Len(Cards) : \A j \in 1..Len(Cards[k].regions) :
                Range(Cards[k].regions[j].text) \cap Labels = {}
    /\ (OcrMissing \/ Cv2Missing) =>
            /\ error \in InputErrors \cup {""}
            /\ ~Terminated => ENABLED Next
            /\ pc = "done" => FullSummary /\ SummaryWritten

C5_Witness ==
    /\ pc = "done" /\ OcrMissing /\ Cv2Missing
    /\ symbolsMap.readable
    /\ Len(summary.cards) = 2 /\ Len(regions) = 2

\* the regions document as the file holds it
FileObj == regionsFile.obj
FileRegions == IF FileObj.kind = "list" THEN FileObj.items ELSE FileObj.regions.items
TopLevelOk ==
    \/ FileObj.kind = "list"
    \/ FileObj.kind = "dict" /\ FileObj.regions.tag = "list"
Convertible(j) == j.t \in {"int", "float", "str"}

\* the file is in the new format and int() accepts the first two entries of
\* its image_size list
FileGivesSize ==
    /\ FileObj.kind = "dict" /\ FileObj.regions.tag = "list"
    /\ FileObj.image_size.tag = "list"
    /\ Len(FileObj.image_size.items) >= 2
    /\ Convertible(FileObj.image_size.items[1])
    /\ Convertible(FileObj.image_size.items[2])
FileSize == <<PyInt(FileObj.image_size.items[1]), PyInt(FileObj.image_size.items[2])>>

ArgsGiveSize == Truthy(args.card_width) /\ Truthy(args.card_height)

\* the inputs C6 calls malformed or unreadable
LacksCoordinate ==
    TopLevelOk /\ \E k \in 1..Len(FileRegions) :
        Missing \in {FileRegions[k].x, FileRegions[k].y,
                     FileRegions[k].width, FileRegions[k].height}
NoCardSize ==
    TopLevelOk /\ ~FileGivesSize
    /\ (args.card_width = None \/ args.card_height = None)
ZeroGrid ==
    /\ TopLevelOk /\ atlas.readable
    /\ FileGivesSize \/ ArgsGiveSize
    /\ LET cs == IF FileGivesSize THEN FileSize
                 ELSE <<args.card_width[1], args.card_height[1]>>
       IN  \/ cs[1] <= 0 \/ cs[2] <= 0
           \/ cs[1] > atlas.size[1] \/ cs[2] > atlas.size[2]
Malformed ==
    \/ ~regionsFile.exists \/ ~atlas.exists \/ ~atlas.readable
    \/ FileObj.kind = "invalid"
    \/ ~TopLevelOk
    \/ LacksCoordinate
    \/ NoCardSize
    \/ ZeroGrid

\* C6: with a missing or unreadable input, a regions file that is not valid
\* JSON or has no list of regions, a region lacking x/y/width/height, no
\* card size from the file or the command line, or a card size giving zero
\* columns or rows, the run ends with an error and cards_summary.json is
\* never written.
C6_MalformedInputsFail ==
    Malformed =>
        /\ pc # "done"
        /\ ~SummaryWritten
        /\ ~Terminated => ENABLED Next
        /\ pc = "failed" => error \in InputErrors

\* the second region lacks a coordinate: the first was recorded, then the run failed
C6_Witness ==
    /\ pc = "failed" /\ error = "KeyError"
    /\ Len(card_entry.regions) = 1
    /\ ~SummaryWritten

\* the card-size decision of lines 90-96 has been taken
CardSizeDecided ==
    /\ pc \notin {"main", "load_regions", "open_atlas", "card_size"}
    /\ error \notin {"SystemExit: Atlas image not found",
                     "SystemExit: Regions JSON not found",
                     "RuntimeError: Failed to parse JSON",
                     "RuntimeError: Unrecognized regions JSON format",
                     "UnidentifiedImageError"}

Tiled == pc \in {"card", "region", "ocr", "detect", "scale", "dedupe", "merge", "save", "done"}

\* C7 (amended): the card size is the file's image_size, each entry converted
\* by int(), whenever the file is in the new format and int() accepts the
\* first two entries of its image_size list (integers, floats, numeric
\* strings), the command-line size being ignored; it is the command-line
\* width and height when the file gives no such size and both are supplied
\* and non-zero; otherwise the run fails with the card-size error.  The size
\* chosen is the one recorded in the summary and used for tiling.
C7_CardSizeSelection ==
    CardSizeDecided =>
        /\ IF FileGivesSize
           THEN /\ <<card_w, card_h>> = FileSize
                /\ error # "RuntimeError: Card size not found"
           ELSE IF ArgsGiveSize
           THEN /\ <<card_w, card_h>> = <<args.card_width[1], args.card_height[1]>>
                /\ error # "RuntimeError: Card size not found"
           ELSE pc = "failed" /\ error = "RuntimeError: Card size not found"
        /\ Tiled => /\ summary.card_size = <<card_w, card_h>>
                    /\ cols = atlas_w \div card_w /\ rows = atlas_h \div card_h

\* image_size [2.5, 2.0] is used as 2x2 although --card-width 3 is given
C7_Witness ==
    /\ pc = "done"
    /\ FileObj.image_size = JList(<<JFloat(5), JFloat(4)>>)
    /\ args.card_width = Some(3)
    /\ summary.card_size = <<2, 2>>

\* C7 as claimed: an image_size with non-integer entries is not usable, and
\* then the command-line size is used when both are supplied, the run
\* failing with the card-size error otherwise.
C7_AsClaimed ==
    CardSizeDecided =>
        LET isz == FileObj.image_size
            usable == /\ FileObj.kind = "dict" /\ isz.tag = "list"
                      /\ Len(isz.items) >= 2
                      /\ isz.items[1].t = "int" /\ isz.items[2].t = "int"
        IN  IF usable
            THEN <<card_w, card_h>> = <<isz.items[1].v, isz.items[2].v>>
            ELSE IF args.card_width # None /\ args.card_height # None
            THEN /\ <<card_w, card_h>> = <<args.card_width[1], args.card_height[1]>>
                 /\ error # "RuntimeError: Card size not found"
            ELSE pc = "failed" /\ error = "RuntimeError: Card size not found"

FilesOfKind(kind) == {k \in 1..Len(files) : files[k].kind = kind}

\* C8: cards_summary.json is written exactly once, as the last write, when
\* all cols * rows cards are in the summary; PNG and TXT files are written
\* only with save_crops set, a TXT only for a region whose merged text is
\* non-empty (and holding that text); without save_crops the summary is the
\* only file written.
C8_OutputFiles ==
    /\ SummaryWritten <=> pc = "done"
    /\ SummaryWritten =>
        /\ files[Len(files)].kind = "summary"
        /\ Cardinality(FilesOfKind("summary")) = 1
        /\ Len(summary.cards) = cols * rows
    /\ ~args.save_crops => \A k \in 1..Len(files) : files[k].kind = "summary"
    /\ \A k \in FilesOfKind("txt") :
        /\ args.save_crops
        /\ files[k].content # <<>>
        /\ files[k].content = Cards[files[k].card + 1].regions[files[k].reg + 1].text
    /\ \A k \in FilesOfKind("png") : args.save_crops

\* crops saved: a region with text got its TXT, one without text did not
C8_Witness ==
    /\ pc = "done" /\ args.save_crops
    /\ FilesOfKind("txt") # {} /\ FilesOfKind("png") # {}
    /\ Len(files) < 1 + 2 * Len(regions) * Len(summary.cards)

Occurrences(s, c) == Cardinality({k \in 1..Len(s) : s[k] = c})
Position(s, c) == CHOOSE k \in 1..Len(s) : s[k] = c

Keys(ms) == {SymbolKey(ms[k]) : k \in 1..Len(ms)}

\* C10, one step: the template loop appends a match only for a template whose
\* best colour score reaches symbol_threshold and whose best edge score
\* reaches symbol_edge_threshold, with the best colour score as its score;
\* deduplication leaves one match per symbol key (name, else token, else
\* glyph), each an accepted match of the highest score for its key, ordered
\* by non-increasing score.
C10_Step ==
    /\ (pc = "scale" /\ scale_idx > NumScales) =>
        /\ Len(matches') \in {Len(matches), Len(matches) + 1}
        /\ SubSeq(matches', 1, Len(matches)) = matches
        /\ Len(matches') > Len(matches) =>
            LET m == matches'[Len(matches')]
            IN  /\ best_color >= args.symbol_threshold
                /\ best_edge >= args.symbol_edge_threshold
                /\ m.score = best_color /\ m.edge_score = best_edge
                /\ m.name = templates[tpl_idx].name
                /\ m.glyph = templates[tpl_idx].glyph
                /\ m.token = templates[tpl_idx].token
        /\ (best_color >= args.symbol_threshold
            /\ best_edge < args.symbol_edge_threshold) => matches' = matches
    /\ pc = "dedupe" =>
        /\ Keys(matches') = Keys(matches)
        /\ Len(matches') = Cardinality(Keys(matches))
        /\ \A k \in 1..Len(matches') :
            /\ \E j \in 1..Len(matches) : matches[j] = matches'[k]
            /\ \A j \in 1..Len(matches) :
                SymbolKey(matches[j]) = SymbolKey(matches'[k])
                    => matches[j].score <= matches'[k].score
        /\ \A j, k \in 1..Len(matches') :
            j < k => matches'[j].score >= matches'[k].score

C10_AcceptanceAndDedup == [][C10_Step]_vars

\* both templates were accepted and the sort put the second, better one first
C10_Witness ==
    /\ pc = "merge"
    /\ Len(templates) = 2 /\ Len(matches) = 2
    /\ matches[1].name = templates[2].name /\ matches[1].glyph = templates[2].glyph
    /\ matches[2].name = templates[1].name /\ matches[2].glyph = templates[1].glyph
    /\ matches[1].score > matches[2].score
    /\ templates[1].name # templates[2].name

====
